---- MODULE Spec2Model ----
(***************************************************************************)
(* Model of the distributed token-bucket rate limiter of src/src/lib.rs:   *)
(* TokenBucket::limit on top of TokenDynamoClient (get / put_limit /       *)
(* put_settings) and a DynamoDB table shared by several limiter instances. *)
(*                                                                         *)
(* The await points of the code are the interleaving points of the model:  *)
(*   Query    the DynamoDB query of get                     (lib.rs 108-118)*)
(*   GetDone  the rest of get: decoding and defaults        (lib.rs 120-137)*)
(*   Decide   now, refill, admission test, consumption      (lib.rs 206-220)*)
(*   Put      put_limit and the return of limit             (lib.rs 140-167,*)
(*                                                           222-223)       *)
(* The table is an external resource: put_limit's PutItem carries the      *)
(* condition expression "last_updated <= :new_updated", which DynamoDB     *)
(* evaluates against the item currently stored under the key.  When no     *)
(* item is stored the attribute last_updated is missing, the comparison    *)
(* is false and the request fails with ConditionalCheckFailedException     *)
(* (the expression has no attribute_not_exists alternative).               *)
(* Reads are modelled as consistent reads of the table.                    *)
(***************************************************************************)
EXTENDS Integers, Sequences, FiniteSets, TLC

(* ---------------------------- bounds ----------------------------------- *)
\* width of the unsigned integers of the model (u64 in the source)
WordBits == 4
\* the clock runs from 0 to MaxTime
MaxTime == 3

U64Modulus == 2 ^ WordBits
U64Max == U64Modulus - 1

\* the sum of the allowed costs is counted up to SumCap
SumCap == 16

Procs == {"p1", "p2"}
SoloProcs == {"p1"}
Ids == {"a"}

(* ---------------------------- data ------------------------------------- *)
\* Option<T> is the empty set (None) or a singleton (Some)
NoneOpt == {}
Some(x) == {x}
Unwrap(o) == CHOOSE x \in o : TRUE
UnwrapOr(o, d) == IF o = NoneOpt THEN d ELSE Unwrap(o)

RateLimitSettings(max, start, rate, interval) ==
    [max_tokens |-> max, starting_tokens |-> start,
     refill_rate |-> rate, refill_interval |-> interval]

RateLimitItem(lu, tokens) == [last_updated |-> lu, tokens |-> tokens]

\* the settings of the end-to-end scenarios
ScenarioSettings == RateLimitSettings(10, 10, 1, 1)
\* starting_tokens above max_tokens, interval of two seconds
SmallSettings == RateLimitSettings(3, 5, 2, 2)
\* the largest representable rate and capacity
HugeSettings == RateLimitSettings(U64Max, 1, U64Max, 1)

\* a small capacity refilled at the largest representable rate
FastSettings == RateLimitSettings(3, 1, U64Max, 1)

\* one token per second, starting below the capacity
SlowSettings == RateLimitSettings(3, 1, 1, 1)

SettingsSet == {ScenarioSettings, SmallSettings, HugeSettings, FastSettings}

\* stored items that do not deserialize: a negative number is no u64, and
\* zero is no NonZeroU64
CorruptItem == RateLimitItem(0, 0 - 1)
CorruptSettings == RateLimitSettings(3, 5, 2, 0)

\* state rows found in the table at start-up
SeedItems == {RateLimitItem(0, 5), RateLimitItem(2, 0)}
\* records written by direct callers of put_limit
DirectItems == {RateLimitItem(1, 4)}
StoreItems == {RateLimitItem(lu, t) : lu \in 0..MaxTime, t \in {1, 4}}
\* costs requested by a single caller, and by concurrent callers
CostSet == {0, 2, 5, 6}
\* the cost of a caller that retries the same request
RetryCosts == {2}
ConcurrentCosts == {1, 3, 6}

NoResult == [kind |-> "none", remaining |-> 0]
Allow(r) == [kind |-> "Allow", remaining |-> r]
Deny == [kind |-> "Deny", remaining |-> 0]
DynamoGet == [kind |-> "DynamoGet", remaining |-> 0]
DynamoPut == [kind |-> "DynamoPut", remaining |-> 0]
SerdeError == [kind |-> "SerdeError", remaining |-> 0]
Panic == [kind |-> "panic", remaining |-> 0]

Min(a, b) == IF a < b THEN a ELSE b

(* ---------------------------- state ------------------------------------ *)
VARIABLES
    clock,              \* SystemTime::now() in seconds
    overflow_checks,    \* build profile: TRUE panics on overflow, FALSE wraps
    single_caller,      \* one caller and no other writer: history is recorded
    default_settings,   \* TokenBucket.default_settings
    limits,             \* table rows with sort key LIMIT, per id: Option
    settings,           \* table rows with sort key SETTINGS, per id: Option
    pc,                 \* position of each caller inside limit
    cid,                \* id argument of the call in progress
    cost,               \* cost argument of the call in progress
    qlimit,             \* LIMIT row returned by the query: Option
    qsettings,          \* SETTINGS row returned by the query: Option
    limit,              \* local `limit` of TokenBucket::limit: Option
    lsettings,          \* local `settings` of TokenBucket::limit: Option
    now,                \* local `now`
    result,             \* value returned by limit
    query_result,       \* outcome of the query of get: none, Ok, Err
    put_result,         \* outcome of the PutItem of put_limit (line 144)
    fetched,            \* history: the state as returned by get
    refilled,           \* history: limit.tokens after line 213
    puts,               \* history: put_limit invocations of this call
    missing,            \* history: the query found no LIMIT row
    overtaken,          \* history: stored row written by a later reader
    readOrder,          \* history: callers in flight, in the order they read
    prevPut,            \* history: last record passed to put_limit, per id
    lastAllowed,        \* history: time/tokens of the last allowed call, per id
    firstSeen,          \* history: the state the first call on an id got
    allowedSum          \* history: sum of the costs allowed, per id

storeVars == <<limits, settings>>
envVars == <<clock, overflow_checks, single_caller, default_settings>>
callVars == <<pc, cid, cost, qlimit, qsettings, limit, lsettings, now, result,
              query_result, put_result>>
histVars == <<fetched, refilled, puts, missing, overtaken, readOrder, prevPut,
              lastAllowed, firstSeen, allowedSum>>
vars == <<envVars, storeVars, callVars, histVars>>

(* ---------------------------- arithmetic ------------------------------- *)
\* u64::saturating_sub
SaturatingSub(a, b) == IF a < b THEN 0 ELSE a - b

\* lines 208-210: saturating_sub then saturating_div by a NonZeroU64
Intervals(n, item, s) ==
    SaturatingSub(n, item.last_updated) \div s.refill_interval

\* line 212: plain `*` on u64 (wraps when overflow checks are off)
RefilledTokens(n, item, s) == (Intervals(n, item, s) * s.refill_rate) % U64Modulus

\* variant: the refilled tokens are not clamped to the capacity
TokensAfterRefillUnclamped(n, item, s) ==
    (item.tokens + RefilledTokens(n, item, s)) % U64Modulus

\* line 213: plain `+` on u64, then cmp::min
TokensAfterRefill(n, item, s) ==
    Min(s.max_tokens, (item.tokens + RefilledTokens(n, item, s)) % U64Modulus)

\* lines 212-213: one of the two plain operations leaves the u64 range
Overflows(n, item, s) ==
    \/ Intervals(n, item, s) * s.refill_rate > U64Max
    \/ item.tokens + RefilledTokens(n, item, s) > U64Max

(* ---------------------------- store ------------------------------------ *)
\* serde: the attributes of a stored item fit the fields of the struct
ValidItem(item) == item.last_updated \in 0..U64Max /\ item.tokens \in 0..U64Max

ValidSettings(s) ==
    /\ s.max_tokens \in 0..U64Max /\ s.starting_tokens \in 0..U64Max
    /\ s.refill_rate \in 0..U64Max /\ s.refill_interval \in 1..U64Max

\* lines 125 and 128: from_item(item).ok()
FromLimitItem(row) ==
    IF row # NoneOpt /\ ValidItem(Unwrap(row)) THEN row ELSE NoneOpt

FromSettingsItem(row) ==
    IF row # NoneOpt /\ ValidSettings(Unwrap(row)) THEN row ELSE NoneOpt

\* line 151: the condition expression against the stored item
ConditionHolds(stored, item) ==
    /\ stored # NoneOpt
    /\ Unwrap(stored).last_updated <= item.last_updated

\* lines 144-154: the conditional PutItem
PutItemOutcome(stored, item) ==
    IF ConditionHolds(stored, item) THEN "Ok" ELSE "ConditionalCheckFailed"

PutItemStored(stored, item) ==
    IF ConditionHolds(stored, item) THEN Some(item) ELSE stored

\* variant: a failed condition is reported as an error
PutLimitResultStrict(outcome) ==
    IF outcome = "Ok" THEN "Ok" ELSE "Err"

\* lines 156-166: what put_limit returns for each outcome of PutItem
PutLimitResult(outcome) ==
    CASE outcome = "Ok" -> "Ok"
      [] outcome = "ConditionalCheckFailed" -> "Ok"
      [] OTHER -> "Err"

\* variant: the result of put_limit is ignored
LimitReturnIgnoringError(putResult, remaining) == Allow(remaining)

\* lines 222-223: `?` on put_limit, then Allow
LimitReturn(putResult, remaining) ==
    IF putResult = "Ok" THEN Allow(remaining) ELSE DynamoPut

(* ---------------------------- history helpers -------------------------- *)
Before(p, q) ==
    \E i, j \in 1..Len(readOrder) :
        /\ i < j /\ readOrder[i] = p /\ readOrder[j] = q

Without(seq, p) == SelectSeq(seq, LAMBDA x : x # p)

InFlightRead(q) == pc[q] \in {"got", "fetched", "put"}

(* ---------------------------- initial state ---------------------------- *)
\* no call in progress, empty history
InitCallers ==
    /\ pc = [p \in Procs |-> "idle"]
    /\ cid = [p \in Procs |-> "a"]
    /\ cost = [p \in Procs |-> 0]
    /\ qlimit = [p \in Procs |-> NoneOpt]
    /\ qsettings = [p \in Procs |-> NoneOpt]
    /\ limit = [p \in Procs |-> NoneOpt]
    /\ lsettings = [p \in Procs |-> NoneOpt]
    /\ now = [p \in Procs |-> 0]
    /\ result = [p \in Procs |-> NoResult]
    /\ query_result = [p \in Procs |-> "none"]
    /\ put_result = [p \in Procs |-> "none"]
    /\ fetched = [p \in Procs |-> NoneOpt]
    /\ refilled = [p \in Procs |-> 0]
    /\ puts = [p \in Procs |-> 0]
    /\ missing = [p \in Procs |-> FALSE]
    /\ overtaken = [p \in Procs |-> FALSE]
    /\ readOrder = <<>>
    /\ prevPut = [i \in Ids |-> NoneOpt]
    /\ lastAllowed = [i \in Ids |-> NoneOpt]
    /\ firstSeen = [i \in Ids |-> NoneOpt]
    /\ allowedSum = [i \in Ids |-> 0]

\* several limiter instances on a table that holds no row or one state row
Init ==
    /\ clock = 0
    /\ overflow_checks = FALSE
    /\ single_caller = FALSE
    /\ default_settings = SmallSettings
    /\ limits \in [Ids -> {NoneOpt, Some(RateLimitItem(0, 5))}]
    /\ settings \in [Ids -> {NoneOpt}]
    /\ InitCallers

\* a single caller, any build profile, any settings and any seeded table
InitSolo ==
    /\ clock = 0
    /\ overflow_checks \in BOOLEAN
    /\ single_caller = TRUE
    /\ default_settings \in SettingsSet
    /\ limits \in [Ids -> {NoneOpt} \cup {Some(i) : i \in SeedItems}]
    /\ settings \in [Ids -> {NoneOpt, Some(SmallSettings)}]
    /\ InitCallers

\* a single caller on a table that may hold rows that do not deserialize
InitCorrupt ==
    /\ clock = 0
    /\ overflow_checks = FALSE
    /\ single_caller = TRUE
    /\ default_settings \in {ScenarioSettings, SmallSettings}
    /\ limits \in [Ids -> {NoneOpt, Some(CorruptItem), Some(RateLimitItem(0, 5))}]
    /\ settings \in [Ids -> {NoneOpt, Some(CorruptSettings)}]
    /\ InitCallers

\* a single caller on a table that holds the state of a first observation
InitRate ==
    /\ clock = 0
    /\ overflow_checks \in BOOLEAN
    /\ single_caller = TRUE
    /\ default_settings \in {SlowSettings, ScenarioSettings}
    /\ limits \in [Ids -> {Some(RateLimitItem(0, 1)), Some(RateLimitItem(1, 1))}]
    /\ settings \in [Ids -> {NoneOpt}]
    /\ InitCallers

\* a single caller that retries, on a table with no row or one state row
InitRetry ==
    /\ clock = 0
    /\ overflow_checks \in BOOLEAN
    /\ single_caller = TRUE
    /\ default_settings \in {SlowSettings, ScenarioSettings}
    /\ limits \in [Ids -> {NoneOpt, Some(RateLimitItem(0, 1))}]
    /\ settings \in [Ids -> {NoneOpt}]
    /\ InitCallers

\* the table alone, with direct clients of put_limit and put_settings
InitStore ==
    /\ clock = 0
    /\ overflow_checks = FALSE
    /\ single_caller = FALSE
    /\ default_settings = ScenarioSettings
    /\ limits \in [Ids -> {NoneOpt} \cup {Some(i) : i \in SeedItems}]
    /\ settings \in [Ids -> {NoneOpt}]
    /\ InitCallers

(* ---------------------------- actions ---------------------------------- *)
\* the clock advances by one second
Tick ==
    /\ clock < MaxTime
    /\ clock' = clock + 1
    /\ UNCHANGED <<overflow_checks, single_caller, default_settings, storeVars, callVars,
                   histVars>>

\* a caller enters limit(id, c), c drawn from costs
Call(p, costs) ==
    /\ pc[p] = "idle"
    /\ \E i \in Ids, c \in costs :
        /\ cid' = [cid EXCEPT ![p] = i]
        /\ cost' = [cost EXCEPT ![p] = c]
    /\ pc' = [pc EXCEPT ![p] = "query"]
    /\ UNCHANGED <<envVars, storeVars, qlimit, qsettings, limit, lsettings, now,
                   result, query_result, put_result, histVars>>

\* lines 108-118: the query succeeds and returns the rows of the id
QueryOk(p) ==
    /\ pc[p] = "query"
    /\ qlimit' = [qlimit EXCEPT ![p] = limits[cid[p]]]
    /\ qsettings' = [qsettings EXCEPT ![p] = settings[cid[p]]]
    /\ query_result' = [query_result EXCEPT ![p] = "Ok"]
    /\ pc' = [pc EXCEPT ![p] = "got"]
    /\ missing' = [missing EXCEPT ![p] = (limits[cid[p]] = NoneOpt)]
    /\ overtaken' = [overtaken EXCEPT ![p] = FALSE]
    /\ readOrder' = Append(Without(readOrder, p), p)
    /\ UNCHANGED <<envVars, storeVars, cid, cost, limit, lsettings, now, result,
                   put_result, fetched, refilled, puts, prevPut, lastAllowed, firstSeen, allowedSum>>

\* variant: a failed query is taken for an empty one
QueryErrAsEmpty(p) ==
    /\ pc[p] = "query"
    /\ qlimit' = [qlimit EXCEPT ![p] = NoneOpt]
    /\ qsettings' = [qsettings EXCEPT ![p] = NoneOpt]
    /\ query_result' = [query_result EXCEPT ![p] = "Err"]
    /\ pc' = [pc EXCEPT ![p] = "got"]
    /\ missing' = [missing EXCEPT ![p] = TRUE]
    /\ overtaken' = [overtaken EXCEPT ![p] = FALSE]
    /\ readOrder' = Append(Without(readOrder, p), p)
    /\ UNCHANGED <<envVars, storeVars, cid, cost, limit, lsettings, now, result,
                   put_result, fetched, refilled, puts, prevPut, lastAllowed, firstSeen, allowedSum>>

\* line 116 and line 204: the query fails, `?` returns the error from limit
QueryErr(p) ==
    /\ pc[p] = "query"
    /\ pc' = [pc EXCEPT ![p] = "done"]
    /\ result' = [result EXCEPT ![p] = DynamoGet]
    /\ query_result' = [query_result EXCEPT ![p] = "Err"]
    /\ UNCHANGED <<envVars, storeVars, cid, cost, qlimit, qsettings, limit,
                   lsettings, now, put_result, histVars>>

Query(p) == QueryOk(p) \/ QueryErr(p)

\* variant: a new state always starts from the default settings
GetDoneDefaultStart(p) ==
    /\ pc[p] = "got"
    /\ LET s == UnwrapOr(FromSettingsItem(qsettings[p]), default_settings)
           l == UnwrapOr(FromLimitItem(qlimit[p]),
                         RateLimitItem(clock, default_settings.starting_tokens))
       IN  /\ lsettings' = [lsettings EXCEPT ![p] = Some(s)]
           /\ limit' = [limit EXCEPT ![p] = Some(l)]
           /\ fetched' = [fetched EXCEPT ![p] = Some(l)]
           /\ firstSeen' = [firstSeen EXCEPT ![cid[p]] =
                  IF single_caller /\ @ = NoneOpt
                  THEN Some([time |-> l.last_updated, tokens |-> l.tokens])
                  ELSE @]
    /\ qlimit' = [qlimit EXCEPT ![p] = NoneOpt]
    /\ qsettings' = [qsettings EXCEPT ![p] = NoneOpt]
    /\ pc' = [pc EXCEPT ![p] = "fetched"]
    /\ UNCHANGED <<envVars, storeVars, cid, cost, now, result, query_result,
                   put_result, refilled, puts, missing, overtaken, readOrder,
                   prevPut, lastAllowed, allowedSum>>

\* lines 120-137: decoding of the rows, defaults for the missing ones;
\* RateLimitItem::new reads the clock
GetDone(p) ==
    /\ pc[p] = "got"
    /\ LET s == UnwrapOr(FromSettingsItem(qsettings[p]), default_settings)
           l == UnwrapOr(FromLimitItem(qlimit[p]),
                         RateLimitItem(clock, s.starting_tokens))
       IN  /\ lsettings' = [lsettings EXCEPT ![p] = Some(s)]
           /\ limit' = [limit EXCEPT ![p] = Some(l)]
           /\ fetched' = [fetched EXCEPT ![p] = Some(l)]
           /\ firstSeen' = [firstSeen EXCEPT ![cid[p]] =
                  IF single_caller /\ @ = NoneOpt
                  THEN Some([time |-> l.last_updated, tokens |-> l.tokens])
                  ELSE @]
    /\ qlimit' = [qlimit EXCEPT ![p] = NoneOpt]
    /\ qsettings' = [qsettings EXCEPT ![p] = NoneOpt]
    /\ pc' = [pc EXCEPT ![p] = "fetched"]
    /\ UNCHANGED <<envVars, storeVars, cid, cost, now, result, query_result,
                   put_result, refilled, puts, missing, overtaken, readOrder,
                   prevPut, lastAllowed, allowedSum>>

\* variant: the refilled state is published before the admission test
DecidePublishingFirst(p) ==
    /\ pc[p] = "fetched"
    /\ LET l == Unwrap(limit[p])
           s == Unwrap(lsettings[p])
           t == TokensAfterRefill(clock, l, s)
           i == cid[p]
       IN  /\ now' = [now EXCEPT ![p] = clock]
           /\ IF overflow_checks /\ Overflows(clock, l, s)
              THEN /\ pc' = [pc EXCEPT ![p] = "done"]
                   /\ result' = [result EXCEPT ![p] = Panic]
                   /\ UNCHANGED <<limit, refilled, limits, puts>>
              ELSE /\ refilled' = [refilled EXCEPT ![p] = t]
                   /\ IF t < cost[p]
                      THEN /\ pc' = [pc EXCEPT ![p] = "done"]
                           /\ result' = [result EXCEPT ![p] = Deny]
                           /\ limit' = [limit EXCEPT ![p] =
                                  Some([l EXCEPT !.tokens = t])]
                           /\ limits' = [limits EXCEPT ![i] =
                                  PutItemStored(limits[i], [l EXCEPT !.tokens = t])]
                           /\ puts' = [puts EXCEPT ![p] = @ + 1]
                      ELSE /\ pc' = [pc EXCEPT ![p] = "put"]
                           /\ limit' = [limit EXCEPT ![p] =
                                  Some([l EXCEPT !.tokens = SaturatingSub(t, cost[p])])]
                           /\ UNCHANGED <<result, limits, puts>>
    /\ UNCHANGED <<envVars, settings, cid, cost, qlimit, qsettings, lsettings,
                   query_result, put_result, fetched, missing, overtaken,
                   readOrder, prevPut, lastAllowed, firstSeen, allowedSum>>

\* lines 206-220: read the clock, refill, admission test, consumption
Decide(p) ==
    /\ pc[p] = "fetched"
    /\ LET l == Unwrap(limit[p])
           s == Unwrap(lsettings[p])
           t == TokensAfterRefill(clock, l, s)
       IN  /\ now' = [now EXCEPT ![p] = clock]
           /\ IF overflow_checks /\ Overflows(clock, l, s)
              THEN /\ pc' = [pc EXCEPT ![p] = "done"]
                   /\ result' = [result EXCEPT ![p] = Panic]
                   /\ UNCHANGED <<limit, refilled>>
              ELSE /\ refilled' = [refilled EXCEPT ![p] = t]
                   /\ IF t < cost[p]
                      THEN /\ pc' = [pc EXCEPT ![p] = "done"]
                           /\ result' = [result EXCEPT ![p] = Deny]
                           /\ limit' = [limit EXCEPT ![p] =
                                  Some([l EXCEPT !.tokens = t])]
                      ELSE /\ pc' = [pc EXCEPT ![p] = "put"]
                           /\ limit' = [limit EXCEPT ![p] =
                                  Some([l EXCEPT !.tokens = SaturatingSub(t, cost[p])])]
                           /\ UNCHANGED result
    /\ UNCHANGED <<envVars, storeVars, cid, cost, qlimit, qsettings, lsettings,
                   query_result, put_result, fetched, puts, missing, overtaken,
                   readOrder, prevPut, lastAllowed, firstSeen, allowedSum>>

\* lines 140-167 and 222-223: put_limit answers (stored or condition failed)
PutOk(p) ==
    /\ pc[p] = "put"
    /\ LET i == cid[p]
           item == Unwrap(limit[p])
           outcome == PutItemOutcome(limits[i], item)
           r == LimitReturn(PutLimitResult(outcome), item.tokens)
       IN  /\ limits' = [limits EXCEPT ![i] = PutItemStored(limits[i], item)]
           /\ result' = [result EXCEPT ![p] = r]
           /\ put_result' = [put_result EXCEPT ![p] = outcome]
           /\ lastAllowed' = [lastAllowed EXCEPT ![i] =
                  IF single_caller /\ r.kind = "Allow"
                  THEN Some([time |-> now[p], tokens |-> r.remaining,
                             fresh |-> missing[p]])
                  ELSE @]
           /\ allowedSum' = [allowedSum EXCEPT ![i] =
                  IF single_caller /\ r.kind = "Allow"
                  THEN Min(SumCap, @ + cost[p])
                  ELSE @]
           /\ overtaken' = [q \in Procs |->
                  IF outcome = "Ok" /\ cid[q] = i /\ q # p /\ InFlightRead(q)
                  THEN Before(q, p) /\ r.kind = "Allow"
                  ELSE overtaken[q]]
    /\ pc' = [pc EXCEPT ![p] = "done"]
    /\ puts' = [puts EXCEPT ![p] = @ + 1]
    /\ UNCHANGED <<envVars, settings, cid, cost, qlimit, qsettings, limit,
                   lsettings, now, query_result, fetched, refilled, missing,
                   readOrder, prevPut, firstSeen>>

\* lines 142, 163, 165: serialization or service failure of the PutItem
PutErr(p) ==
    /\ pc[p] = "put"
    /\ LET r == LimitReturn(PutLimitResult("ServiceError"), Unwrap(limit[p]).tokens)
       IN  result' = [result EXCEPT ![p] = r]
    /\ put_result' = [put_result EXCEPT ![p] = "ServiceError"]
    /\ pc' = [pc EXCEPT ![p] = "done"]
    /\ puts' = [puts EXCEPT ![p] = @ + 1]
    /\ UNCHANGED <<envVars, storeVars, cid, cost, qlimit, qsettings, limit,
                   lsettings, now, query_result, fetched, refilled, missing,
                   overtaken, readOrder, prevPut, lastAllowed, firstSeen, allowedSum>>

Put(p) == PutOk(p) \/ PutErr(p)

\* the caller takes the result; the locals of the call are dropped
Return(p) ==
    /\ pc[p] = "done"
    /\ pc' = [pc EXCEPT ![p] = "idle"]
    /\ cost' = [cost EXCEPT ![p] = 0]
    /\ qlimit' = [qlimit EXCEPT ![p] = NoneOpt]
    /\ qsettings' = [qsettings EXCEPT ![p] = NoneOpt]
    /\ limit' = [limit EXCEPT ![p] = NoneOpt]
    /\ lsettings' = [lsettings EXCEPT ![p] = NoneOpt]
    /\ now' = [now EXCEPT ![p] = 0]
    /\ result' = [result EXCEPT ![p] = NoResult]
    /\ query_result' = [query_result EXCEPT ![p] = "none"]
    /\ put_result' = [put_result EXCEPT ![p] = "none"]
    /\ fetched' = [fetched EXCEPT ![p] = NoneOpt]
    /\ refilled' = [refilled EXCEPT ![p] = 0]
    /\ puts' = [puts EXCEPT ![p] = 0]
    /\ missing' = [missing EXCEPT ![p] = FALSE]
    /\ overtaken' = [overtaken EXCEPT ![p] = FALSE]
    /\ readOrder' = Without(readOrder, p)
    /\ UNCHANGED <<envVars, storeVars, cid, prevPut, lastAllowed, firstSeen, allowedSum>>

\* lines 140-167: another client of the table calls put_limit directly
PutLimitCall(items) ==
    \E i \in Ids, item \in items :
        /\ limits' = [limits EXCEPT ![i] = PutItemStored(limits[i], item)]
        /\ prevPut' = [prevPut EXCEPT ![i] = Some(item)]
        /\ overtaken' = [q \in Procs |->
               IF PutItemOutcome(limits[i], item) = "Ok" /\ cid[q] = i
               THEN FALSE ELSE overtaken[q]]
        /\ UNCHANGED <<envVars, settings, callVars, fetched, refilled, puts,
                       missing, readOrder, lastAllowed, firstSeen, allowedSum>>

\* lines 169-181: put_settings stores the settings unconditionally
PutSettingsCall ==
    \E i \in Ids, s \in SettingsSet :
        /\ settings' = [settings EXCEPT ![i] = Some(s)]
        /\ UNCHANGED <<envVars, limits, callVars, histVars>>

(* ---------------------------- specifications --------------------------- *)
\* several limiter instances and direct clients of the table
Next ==
    \/ Tick
    \/ \E p \in Procs : Call(p, ConcurrentCosts)
    \/ \E p \in Procs : Query(p)
    \/ \E p \in Procs : GetDone(p)
    \/ \E p \in Procs : Decide(p)
    \/ \E p \in Procs : Put(p)
    \/ \E p \in Procs : Return(p)
    \/ PutLimitCall(DirectItems)

Spec == Init /\ [][Next]_vars

\* several limiter instances, no other client of the table
NextPair ==
    \/ Tick
    \/ \E p \in Procs : Call(p, ConcurrentCosts)
    \/ \E p \in Procs : Query(p)
    \/ \E p \in Procs : GetDone(p)
    \/ \E p \in Procs : Decide(p)
    \/ \E p \in Procs : Put(p)
    \/ \E p \in Procs : Return(p)

SpecPair == Init /\ [][NextPair]_vars

\* one limiter instance, no other client of the table
NextSolo ==
    \/ Tick
    \/ \E p \in SoloProcs : Call(p, CostSet)
    \/ \E p \in SoloProcs : Query(p)
    \/ \E p \in SoloProcs : GetDone(p)
    \/ \E p \in SoloProcs : Decide(p)
    \/ \E p \in SoloProcs : Put(p)
    \/ \E p \in SoloProcs : Return(p)

SpecSolo == InitSolo /\ [][NextSolo]_vars

SpecCorrupt == InitCorrupt /\ [][NextSolo]_vars

SpecRate == InitRate /\ [][NextSolo]_vars

\* one limiter instance whose caller retries limit(id, c) with c in
\* RetryCosts; the store answers every request
NextRetry ==
    \/ Tick
    \/ \E p \in SoloProcs : Call(p, RetryCosts)
    \/ \E p \in SoloProcs : QueryOk(p)
    \/ \E p \in SoloProcs : GetDone(p)
    \/ \E p \in SoloProcs : Decide(p)
    \/ \E p \in SoloProcs : PutOk(p)
    \/ \E p \in SoloProcs : Return(p)

\* the clock keeps advancing (up to MaxTime) and the caller keeps retrying
RetryFairness ==
    /\ WF_vars(Tick)
    /\ \A p \in SoloProcs :
        WF_vars(Call(p, RetryCosts) \/ QueryOk(p) \/ GetDone(p) \/ Decide(p)
                \/ PutOk(p) \/ Return(p))

SpecRetry == InitRetry /\ [][NextRetry]_vars /\ RetryFairness

\* direct clients of the table only
NextStore ==
    \/ Tick
    \/ PutLimitCall(StoreItems)
    \/ PutSettingsCall

SpecStore == InitStore /\ [][NextStore]_vars

(* ---------------------------- properties ------------------------------- *)
\* steps of caller p, told by its position
GetStep(p) == pc[p] \in {"query", "got"} /\ pc'[p] # pc[p]
DecideStep(p) == pc[p] = "fetched" /\ pc'[p] # "fetched"
PutStep(p) == pc[p] = "put" /\ pc'[p] = "done"

\* the reference token bucket over the naturals, on what get returned
RefTokens(p) ==
    LET f == Unwrap(fetched[p])
        s == Unwrap(lsettings[p])
        elapsed == IF now[p] < f.last_updated THEN 0 ELSE now[p] - f.last_updated
    IN  Min(s.max_tokens,
            f.tokens + (elapsed \div s.refill_interval) * s.refill_rate)

\* C1: a stale write never resurrects spent tokens: when A read before B, B
\* was allowed and its record is the stored one, a put by A that replaces the
\* stored record does not store more tokens than B's record holds.
C1_NoResurrection ==
    [][\A p \in Procs :
        (PutStep(p) /\ overtaken[p] /\ limits'[cid[p]] # limits[cid[p]])
        => Unwrap(limits'[cid[p]]).tokens <= Unwrap(limits[cid[p]]).tokens]_vars

\* C2: conditional-write safety: put_limit(s1) followed by put_limit(s2) with
\* s1.last_updated > s2.last_updated (nothing fresher than s1 being stored)
\* leaves s1 stored, and the stored last_updated of an id never decreases.
C2_ConditionalWriteSafety ==
    [][\A i \in Ids :
        /\ ( /\ prevPut[i] # NoneOpt
             /\ prevPut'[i] # prevPut[i]
             /\ Unwrap(prevPut[i]).last_updated > Unwrap(prevPut'[i]).last_updated
             /\ \/ limits[i] = NoneOpt
                \/ Unwrap(limits[i]).last_updated <= Unwrap(prevPut[i]).last_updated )
           => limits'[i] = prevPut[i]
        /\ limits[i] # NoneOpt
           => /\ limits'[i] # NoneOpt
              /\ Unwrap(limits'[i]).last_updated >= Unwrap(limits[i]).last_updated]_vars

\* C3: no write on deny: get changes no row; when the refilled tokens are
\* below the cost, limit returns Deny, has not invoked put_limit and leaves
\* the state and settings rows of every id as they were.
C3_NoWriteOnDeny ==
    [][\A p \in Procs :
        /\ GetStep(p) => (limits' = limits /\ settings' = settings)
        /\ (DecideStep(p) /\ result'[p].kind # "panic" /\ refilled'[p] < cost[p])
           => /\ result'[p] = Deny
              /\ pc'[p] = "done"
              /\ limits' = limits /\ settings' = settings
        /\ result'[p] = Deny => puts'[p] = 0]_vars

\* a denied call on an id without a state row, and still no row
C3_Witness ==
    \E p \in Procs :
        /\ pc[p] = "done" /\ result[p] = Deny
        /\ missing[p] /\ limits[cid[p]] = NoneOpt /\ puts[p] = 0

\* C4: limit decides as the reference token bucket does: Deny when the
\* reference tokens after refill are below the cost, otherwise admission with
\* remaining = reference tokens - cost.
C4_ReferenceDecision ==
    \A p \in Procs :
        (\/ pc[p] = "put"
         \/ pc[p] = "done" /\ result[p].kind \in {"Allow", "Deny", "panic"})
        => IF RefTokens(p) < cost[p]
           THEN pc[p] = "done" /\ result[p] = Deny
           ELSE \/ pc[p] = "put"
                   /\ Unwrap(limit[p]).tokens = RefTokens(p) - cost[p]
                \/ pc[p] = "done"
                   /\ result[p] = Allow(RefTokens(p) - cost[p])

\* C5: two callers that read the same state and pass the admission test at
\* the same now both get Allow with their own remaining, and the stored record
\* is then one of the two records they wrote.
C5_BothAllowedOneStored ==
    \A p, q \in Procs :
        ( /\ p # q
          /\ pc[p] = "done" /\ pc[q] = "done"
          /\ cid[p] = cid[q]
          /\ fetched[p] # NoneOpt /\ fetched[p] = fetched[q]
          /\ now[p] = now[q]
          /\ put_result[p] \in {"Ok", "ConditionalCheckFailed"}
          /\ put_result[q] \in {"Ok", "ConditionalCheckFailed"} )
        => /\ result[p] = Allow(refilled[p] - cost[p])
           /\ result[q] = Allow(refilled[q] - cost[q])
           /\ limits[cid[p]] \in {limit[p], limit[q]}

\* C6: with a single caller, an allowed call on an id without a state row
\* leaves a stored record with tokens = remaining, and a call in the same
\* second whose cost exceeds that remaining is denied.
C6_FirstAllowIsDurable ==
    [][\A p \in SoloProcs :
        /\ (PutStep(p) /\ missing[p] /\ result'[p].kind = "Allow")
           => limits'[cid[p]] =
                  Some(RateLimitItem(Unwrap(limit[p]).last_updated,
                                     result'[p].remaining))
        /\ ( /\ DecideStep(p)
             /\ lastAllowed[cid[p]] # NoneOpt
             /\ Unwrap(lastAllowed[cid[p]]).fresh
             /\ Unwrap(lastAllowed[cid[p]]).time = clock
             /\ cost[p] > Unwrap(lastAllowed[cid[p]]).tokens )
           => result'[p] = Deny]_vars

\* C7: with a single caller, the call that follows an allowed call at time t
\* leaving n tokens computes, at time t + d,
\* min(max_tokens, n + floor(d / refill_interval) * refill_rate)
\* (stated for the ids whose state row is stored and read by both calls).
C7_RefillSincePreviousAllow ==
    [][\A p \in SoloProcs :
        ( /\ DecideStep(p)
          /\ result'[p].kind # "panic"
          /\ ~missing[p]
          /\ lastAllowed[cid[p]] # NoneOpt
          /\ ~Unwrap(lastAllowed[cid[p]]).fresh )
        => LET a == Unwrap(lastAllowed[cid[p]])
               s == Unwrap(lsettings[p])
           IN  refilled'[p] =
                   Min(s.max_tokens,
                       a.tokens + ((clock - a.time) \div s.refill_interval)
                                  * s.refill_rate)]_vars

\* C8: a lost race is not an error: when the PutItem is rejected because a
\* fresher record is stored, the stored rows stay as they were and limit
\* returns Allow with the remaining it computed.
C8_LostRaceIsAllow ==
    [][\A p \in Procs :
        ( /\ PutStep(p)
          /\ put_result'[p] = "ConditionalCheckFailed"
          /\ limits[cid[p]] # NoneOpt )
        => /\ Unwrap(limits[cid[p]]).last_updated > Unwrap(limit[p]).last_updated
           /\ result'[p] = Allow(refilled[p] - cost[p])
           /\ limits' = limits /\ settings' = settings]_vars

\* a caller that lost the race against a fresher stored record
C8_Witness ==
    \E p \in Procs :
        /\ pc[p] = "done" /\ put_result[p] = "ConditionalCheckFailed"
        /\ limits[cid[p]] # NoneOpt
        /\ Unwrap(limits[cid[p]]).last_updated > Unwrap(limit[p]).last_updated
        /\ result[p].kind = "Allow"

\* C9: when the PutItem fails otherwise, limit returns the error, put_limit
\* was invoked once and the stored rows stay as they were.
C9_PutErrorPropagated ==
    [][\A p \in Procs :
        /\ (PutStep(p) /\ put_result'[p] = "ServiceError")
           => /\ result'[p] = DynamoPut
              /\ puts'[p] = 1
              /\ limits' = limits /\ settings' = settings
        /\ put_result[p] = "ServiceError"
           => /\ result[p] = DynamoPut
              /\ puts[p] = 1
              /\ pc'[p] \in {"done", "idle"}]_vars

\* a call whose put_limit failed after the admission test had passed
C9_Witness ==
    \E p \in Procs :
        /\ pc[p] = "done" /\ put_result[p] = "ServiceError"
        /\ refilled[p] >= cost[p] /\ result[p] = DynamoPut

\* C10: when the query of get fails, limit returns the error, decides nothing,
\* never invokes put_limit and leaves the stored rows as they were.
C10_GetErrorAborts ==
    [][\A p \in Procs :
        /\ (query_result'[p] = "Err" /\ query_result[p] # "Err")
           => /\ result'[p] = DynamoGet
              /\ pc'[p] = "done"
              /\ limits' = limits /\ settings' = settings
        /\ query_result[p] = "Err"
           => /\ result[p] = DynamoGet
              /\ puts'[p] = 0
              /\ pc'[p] \in {"done", "idle"}]_vars

\* a call aborted by a failed query, on an id that has a state row
C10_Witness ==
    \E p \in Procs :
        /\ pc[p] = "done" /\ query_result[p] = "Err"
        /\ result[p] = DynamoGet /\ puts[p] = 0
        /\ limits[cid[p]] # NoneOpt

\* C11: default substitution: the query returns the rows stored for the id;
\* get returns the stored settings, or the default settings when none are
\* stored, and for an id without a state row a state with last_updated = now
\* and tokens = starting_tokens of those settings.
C11_DefaultSubstitution ==
    [][\A p \in Procs :
        /\ (pc[p] = "query" /\ pc'[p] = "got")
           => /\ qsettings'[p] = settings[cid[p]]
              /\ qlimit'[p] = limits[cid[p]]
        /\ (pc[p] = "got" /\ pc'[p] = "fetched")
           => /\ qsettings[p] = NoneOpt => lsettings'[p] = Some(default_settings)
              /\ qsettings[p] # NoneOpt => lsettings'[p] = qsettings[p]
              /\ qlimit[p] = NoneOpt
                 => fetched'[p] =
                        Some(RateLimitItem(clock,
                                 Unwrap(lsettings'[p]).starting_tokens))]_vars

\* a new state built from stored settings that differ from the default
C11_Witness ==
    \E p \in Procs :
        /\ pc[p] = "fetched" /\ missing[p]
        /\ settings[cid[p]] # NoneOpt
        /\ lsettings[p] = settings[cid[p]]
        /\ Unwrap(lsettings[p]).starting_tokens # default_settings.starting_tokens
        /\ fetched[p] =
               Some(RateLimitItem(clock, Unwrap(lsettings[p]).starting_tokens))

\* C12: a cost of 0 always yields Allow (store failures aside), with
\* remaining equal to the tokens after refill.
C12_ZeroCostAllowed ==
    \A p \in Procs :
        ( /\ cost[p] = 0
          /\ pc[p] = "done"
          /\ result[p].kind \notin {"DynamoGet", "DynamoPut"} )
        => result[p] = Allow(refilled[p])

\* C13: on admission the record passed to put_limit has last_updated = now
\* and tokens = tokens after refill - cost.
C13_PublishedRecord ==
    \A p \in Procs :
        pc[p] = "put"
        => /\ Unwrap(limit[p]).last_updated = now[p]
           /\ Unwrap(limit[p]).tokens = refilled[p] - cost[p]

\* C14: a stored record that cannot be deserialized makes get, and so limit,
\* return an error; it is not replaced by the default settings or by a new
\* state with starting_tokens.
C14_CorruptRecordIsError ==
    [][\A p \in Procs :
        ( /\ pc[p] = "got" /\ pc'[p] # "got"
          /\ \/ qlimit[p] # NoneOpt /\ ~ValidItem(Unwrap(qlimit[p]))
             \/ qsettings[p] # NoneOpt /\ ~ValidSettings(Unwrap(qsettings[p])) )
        => /\ pc'[p] = "done"
           /\ result'[p] = SerdeError
           /\ fetched'[p] = NoneOpt]_vars

\* saturating u64 addition and multiplication
SaturatingAdd(a, b) == Min(U64Max, a + b)
SaturatingMul(a, b) == Min(U64Max, a * b)

\* C15: token arithmetic saturates and never wraps: the tokens after refill
\* are min(max_tokens, tokens (+) intervals (*) refill_rate) with saturating
\* operations, and limit does not abort.
C15_SaturatingRefill ==
    \A p \in Procs :
        (\/ pc[p] = "put"
         \/ pc[p] = "done"
            /\ result[p].kind \in {"Allow", "Deny", "panic", "DynamoPut"})
        => /\ result[p].kind # "panic"
           /\ LET f == Unwrap(fetched[p])
                  s == Unwrap(lsettings[p])
              IN  refilled[p] =
                      Min(s.max_tokens,
                          SaturatingAdd(f.tokens,
                              SaturatingMul(Intervals(now[p], f, s),
                                            s.refill_rate)))

\* C16: refill monotonicity: for a fetched state and its settings, the tokens
\* after refill do not decrease when the clock advances, and never exceed
\* max_tokens.
C16_RefillMonotone ==
    [][\A p \in Procs :
        ( /\ pc[p] = "fetched" /\ pc'[p] = "fetched"
          /\ limit'[p] = limit[p]
          /\ overflow_checks
             => /\ ~Overflows(clock, Unwrap(limit[p]), Unwrap(lsettings[p]))
                /\ ~Overflows(clock', Unwrap(limit[p]), Unwrap(lsettings[p])) )
        => LET l == Unwrap(limit[p])
               s == Unwrap(lsettings[p])
           IN  /\ clock' >= clock
                  => TokensAfterRefill(clock', l, s) >= TokensAfterRefill(clock, l, s)
               /\ TokensAfterRefill(clock, l, s) <= s.max_tokens]_vars

\* C17: under fixed settings every record limit stores and every remaining it
\* returns holds between 0 and max_tokens tokens, also when starting_tokens
\* exceeds max_tokens.
C17_TokensWithinCapacity ==
    [][\A p \in Procs :
        PutStep(p)
        => LET m == Unwrap(lsettings[p]).max_tokens
           IN  /\ limits'[cid[p]] # limits[cid[p]]
                  => /\ Unwrap(limits'[cid[p]]).tokens >= 0
                     /\ Unwrap(limits'[cid[p]]).tokens <= m
               /\ put_result'[p] = "Ok"
                  => Unwrap(limits'[cid[p]]).tokens \in 0..m
               /\ result'[p].kind = "Allow"
                  => result'[p].remaining \in 0..m]_vars

\* a stored record and a remaining within capacity although the state read
\* held more tokens than max_tokens
C17_Witness ==
    \E p \in Procs :
        /\ pc[p] = "done" /\ put_result[p] = "Ok"
        /\ Unwrap(fetched[p]).tokens > Unwrap(lsettings[p]).max_tokens
        /\ Unwrap(lsettings[p]).starting_tokens > Unwrap(lsettings[p]).max_tokens
        /\ result[p].kind = "Allow"
        /\ limits[cid[p]] = limit[p]

\* C19: a request whose cost exceeds max_tokens is denied at every time and
\* in every state, and causes no write.
C19_OverCapacityDenied ==
    [][\A p \in Procs :
        (DecideStep(p) /\ cost[p] > Unwrap(lsettings[p]).max_tokens)
        => /\ result'[p] = Deny
           /\ pc'[p] = "done"
           /\ puts'[p] = 0
           /\ limits' = limits /\ settings' = settings]_vars

\* the refill owed to an identifier first observed in state `first`, at time t
RateBudget(first, s, t) ==
    s.starting_tokens
    + (SaturatingSub(t, first.time) \div s.refill_interval) * s.refill_rate

\* C18: rate bound for a single caller: with fixed settings where
\* starting_tokens <= max_tokens, the costs allowed on an identifier up to
\* time t sum to at most starting_tokens plus refill_rate per interval elapsed
\* since the identifier was first observed.
C18_RateBound ==
    \A i \in Ids :
        ( /\ single_caller
          /\ settings[i] = NoneOpt
          /\ firstSeen[i] # NoneOpt
          /\ default_settings.starting_tokens <= default_settings.max_tokens
          /\ Unwrap(firstSeen[i]).tokens <= default_settings.starting_tokens
          /\ allowedSum[i] < SumCap )
        => allowedSum[i] <= RateBudget(Unwrap(firstSeen[i]), default_settings, clock)

\* the retry of caller p is owed an Allow: the tokens refilled since the
\* first observation of the identifier cover the cost
Admissible(p) ==
    LET s == default_settings
        i == cid[p]
    IN  /\ pc[p] = "query"
        /\ settings[i] = NoneOpt
        /\ firstSeen[i] # NoneOpt
        /\ s.refill_rate > 0
        /\ cost[p] <= s.max_tokens
        /\ LET first == Unwrap(firstSeen[i])
           IN  Min(s.max_tokens,
                   first.tokens
                   + (SaturatingSub(clock, first.time) \div s.refill_interval)
                     * s.refill_rate) >= cost[p]

====
